---- MODULE Spec2Model ----
(***************************************************************************)
(* Model of mfem::AmgXSolver (src/linalg/AmgXSolver.cpp): the communicator *)
(* topology, device assignment, the CSR gather/merge of setA, the vector   *)
(* gather/scatter of solve and the instance-counter lifecycle.             *)
(*                                                                         *)
(* Three specifications share the variables:                               *)
(*   SpecNode  - the P processes of one node, one instance per process:    *)
(*               initialize (setDeviceIDs, communicator splits), the row   *)
(*               count dataflow of setA (row partition), finalize.         *)
(*   SpecGroup - the k processes of one device group: the arrays of setA   *)
(*               (gather, merge loop, upload) and of solve.                *)
(*   SpecLife  - one process with several instances: initialize, setA,     *)
(*               solve, finalize and the static count / rsrc.              *)
(* An "object" below is an AmgXSolver instance; the per-instance fields    *)
(* (gpuProc, devID, ...) are functions from objects to values.  In SpecNode*)
(* and SpecGroup the objects are the ranks (one instance per process), in  *)
(* SpecLife they are the instances of the one process.                     *)
(***************************************************************************)
EXTENDS Integers, Sequences, FiniteSets, TLC

\* ------------------------------------------------------------------ bounds
MaxP == 5
MaxD == 6
MaxRows == 2
NInst == 2
MaxUnderflow == 1
MaxK == 3

\* ------------------------------------------------------- program constants
\* MPI_UNDEFINED of mpi.h (MPICH and Open MPI both use -32766)
MPI_UNDEFINED == -32766

VARIABLES
  \* ---- SpecNode: one node, ranks 0..localSize-1
  localSize,        \* size of localCpuWorld
  nDevs,            \* the nDevs argument of initialize
  pc,               \* position of each object
  devID,            \* AmgXSolver::devID
  gpuProc,          \* AmgXSolver::gpuProc (0 = leader, MPI_UNDEFINED otherwise)
  gpuWorldSize,     \* AmgXSolver::gpuWorldSize (MPI_UNDEFINED when gpuWorld is null)
  myGpuWorldRank,   \* AmgXSolver::myGpuWorldRank
  devWorldSize,     \* AmgXSolver::devWorldSize
  myDevWorldRank,   \* AmgXSolver::myDevWorldRank
  loc_row_len,      \* setA: rows of the caller's matrix on each rank
  local_rows,       \* setA: local_rows of each rank
  rowPart,          \* setA: the row partition table each leader builds
  \* ---- SpecLife: one process, instances 1..NInst
  count,            \* static int AmgXSolver::count
  rsrc,             \* static AMGX_resources_handle AmgXSolver::rsrc
  amgx,             \* the solve engine of the process: "down" or "up"
  aborted,          \* mfem_error or a fatal MPI error has ended the run
  isInitialized,    \* AmgXSolver::isInitialized
  comm,             \* the four communicator handles of each instance
  handles,          \* cfg, AmgXA, AmgXP, AmgXRHS, solver of each instance
  setADone,         \* setA has completed in the current life of the instance
  m_local_rows,     \* AmgXSolver::m_local_rows
  topo,             \* localSize, nDevs, myLocalRank of the last initialize
  last,             \* the last call: operation, instance, engine calls made, modeStr
  \* ---- SpecGroup: one device group, ranks 0..devWorldSize-1 of devWorld
  phase,            \* position of the group in setA / solve
  loc_I,            \* setA: the row pointer GetLocalA returns on each rank
  nDevRows,         \* setA: rows of the group (MPI_Allreduce)
  all_I,            \* setA: the leader's gathered row pointers
  all_J,            \* setA: the leader's gathered columns
  all_A,            \* setA: the leader's gathered values
  desc,             \* Apart and Adisp of the GatherArray calls of the operation
  z_ind,            \* setA: z_ind of the merge loop
  z_init,           \* indices of z_ind written since its allocation
  z_fresh,          \* indices of z_ind written by the last pass
  iter,             \* setA: iter of the merge loop
  local_nnz,        \* setA: local_nnz of the leader
  ub,               \* the run has read an unwritten entry or left an array
  X,                \* solve: the caller's X on each rank
  B,                \* solve: the caller's B on each rank
  all_X,            \* solve: all_X of the leader
  all_B,            \* solve: all_B of the leader
  X0,               \* X on entry of the last solve
  gatheredX,        \* all_X as the last gather left it
  status,           \* solve: status of AMGX_solver_get_status
  AmgXA,            \* the matrix the leader has uploaded: rows and non-zeros
  \* ---- SpecExtract: GetLocalA on one process
  in_A,             \* the HypreParMatrix: row_len, Diag, Offd, cmap, cstart
  I,                \* GetLocalA: the row pointer it fills
  J,                \* GetLocalA: the global columns it fills
  Data              \* GetLocalA: the values it fills

nodeVars == <<localSize, nDevs, pc, devID, gpuProc, gpuWorldSize, myGpuWorldRank,
              devWorldSize, myDevWorldRank, loc_row_len, local_rows, rowPart>>

lifeVars == <<count, rsrc, amgx, aborted, isInitialized, comm, handles, setADone,
              m_local_rows, topo, last>>

grpVars == <<phase, loc_I, nDevRows, all_I, all_J, all_A, desc, z_ind, z_init, z_fresh,
             iter, local_nnz, ub, X, B, all_X, all_B, X0, gatheredX, status, AmgXA>>

extVars == <<in_A, I, J, Data>>

\* the variables that only SpecNode uses
nodeOnly == <<localSize, nDevs, loc_row_len, local_rows, rowPart>>

\* what the actions of each specification leave alone
nodeOthers == <<lifeVars, grpVars, extVars>>
lifeOthers == <<nodeOnly, m_local_rows, grpVars, extVars>>
grpOthers == <<localSize, nDevs, pc, devID, gpuWorldSize, myGpuWorldRank, rowPart,
               count, rsrc, amgx, aborted, isInitialized, comm, handles, setADone,
               topo, last, extVars>>
extOthers == <<localSize, nDevs, devID, gpuProc, gpuWorldSize, myGpuWorldRank,
               devWorldSize, myDevWorldRank, loc_row_len, local_rows, rowPart,
               lifeVars, grpVars>>

vars == <<nodeVars, lifeVars, grpVars, extVars>>

\* ------------------------------------------------------------- helpers
Ranks(n) == 0 .. (n - 1)

RECURSIVE SumTo(_, _)
\* sum of f[0] .. f[n-1]
SumTo(f, n) == IF n <= 0 THEN 0 ELSE SumTo(f, n - 1) + f[n - 1]


\* value of a field that the code has not written yet
Unset == "unset"

\* gpuProc of an instance before its first initialize: the value finalize
\* restores "in case users want to reuse the variable of this instance"
FreshGpuProc == MPI_UNDEFINED

\* -------------------------------------------------------- setDeviceIDs
\* devID as the three branches of setDeviceIDs assign it
DevIDOf_NoRemain(P, D, r) ==
  IF D = P THEN r
  ELSE IF D > P THEN r
  ELSE LET nBasic  == P \div D
           nRemain == P % D
       IN IF r < (nBasic + 1) * nRemain
            THEN r \div (nBasic + 1)
            ELSE (r - (nBasic + 1) * nRemain) \div nBasic

DevIDOf(P, D, r) ==
  IF D = P THEN r
  ELSE IF D > P THEN r
  ELSE LET nBasic  == P \div D
           nRemain == P % D
       IN IF r < (nBasic + 1) * nRemain
            THEN r \div (nBasic + 1)
            ELSE (r - (nBasic + 1) * nRemain) \div nBasic + nRemain

\* gpuProc after setDeviceIDs; old is the value before the call (the D < P
\* branch only ever writes 0)
GpuProcOf_SameModulus(P, D, r, old) ==
  IF D = P THEN 0
  ELSE IF D > P THEN 0
  ELSE LET nBasic  == P \div D
           nRemain == P % D
       IN IF r < (nBasic + 1) * nRemain
            THEN (IF r % (nBasic + 1) = 0 THEN 0 ELSE old)
            ELSE (IF (r - (nBasic + 1) * nRemain) % (nBasic + 1) = 0 THEN 0 ELSE old)

GpuProcOf(P, D, r, old) ==
  IF D = P THEN 0
  ELSE IF D > P THEN 0
  ELSE LET nBasic  == P \div D
           nRemain == P % D
       IN IF r < (nBasic + 1) * nRemain
            THEN (IF r % (nBasic + 1) = 0 THEN 0 ELSE old)
            ELSE (IF (r - (nBasic + 1) * nRemain) % nBasic = 0 THEN 0 ELSE old)

\* ------------------------------------------------------ MPI_Comm_split
\* MPI_Comm_split(parent, color, key = 0): the members of the parent with the
\* caller's color, ordered by their rank in the parent
SplitMembers(members, color, r) == {q \in members : color[q] = color[r]}
SplitSize(members, color, r) ==
  IF color[r] = MPI_UNDEFINED THEN MPI_UNDEFINED
  ELSE Cardinality(SplitMembers(members, color, r))
SplitRank_Descending(members, color, r) ==
  IF color[r] = MPI_UNDEFINED THEN MPI_UNDEFINED
  ELSE Cardinality({q \in SplitMembers(members, color, r) : q > r})
SplitRank(members, color, r) ==
  IF color[r] = MPI_UNDEFINED THEN MPI_UNDEFINED
  ELSE Cardinality({q \in SplitMembers(members, color, r) : q < r})

\* the member of r's split communicator that has rank i in it
SplitMemberAt(members, color, r, i) ==
  CHOOSE q \in SplitMembers(members, color, r) : SplitRank(members, color, q) = i

\* the variables of SpecLife, in the specifications that do not use them
LifeParked ==
  /\ count = 0 /\ rsrc = "null" /\ amgx = "down" /\ aborted = FALSE
  /\ isInitialized = << >> /\ comm = << >> /\ handles = << >> /\ setADone = << >>
  /\ m_local_rows = << >> /\ topo = << >> /\ last = << >>

\* the variables of SpecGroup, in the specifications that do not use them
GrpParked ==
  /\ phase = "none" /\ loc_I = << >> /\ nDevRows = 0 /\ all_I = << >> /\ all_J = << >>
  /\ all_A = << >> /\ desc = << >> /\ z_ind = << >> /\ z_init = {} /\ z_fresh = {}
  /\ iter = 0 /\ local_nnz = 0 /\ ub = FALSE /\ X = << >> /\ B = << >> /\ all_X = << >>
  /\ all_B = << >> /\ X0 = << >> /\ gatheredX = << >> /\ status = "none" /\ AmgXA = << >>

\* the variables of SpecExtract, in the specifications that do not use them
ExtParked == in_A = << >> /\ I = << >> /\ J = << >> /\ Data = << >>

\* the variables only SpecNode uses, in the other specifications
NodeParked ==
  /\ localSize = 0 /\ nDevs = 0
  /\ loc_row_len = << >> /\ local_rows = << >> /\ rowPart = << >>

\* ---------------------------------------------------------------------
\* SpecNode
\* ---------------------------------------------------------------------
NodeRanks == Ranks(localSize)

NodeInit ==
  /\ localSize \in 1 .. MaxP
  /\ nDevs \in 0 .. MaxD
  /\ pc = [r \in Ranks(localSize) |-> "new"]
  /\ devID = [r \in Ranks(localSize) |-> Unset]
  /\ gpuProc = [r \in Ranks(localSize) |-> FreshGpuProc]
  /\ gpuWorldSize = [r \in Ranks(localSize) |-> Unset]
  /\ myGpuWorldRank = [r \in Ranks(localSize) |-> Unset]
  /\ devWorldSize = [r \in Ranks(localSize) |-> Unset]
  /\ myDevWorldRank = [r \in Ranks(localSize) |-> Unset]
  /\ loc_row_len = [r \in Ranks(localSize) |-> 0]
  /\ local_rows = [r \in Ranks(localSize) |-> 0]
  /\ rowPart = [r \in Ranks(localSize) |-> << >>]
  /\ LifeParked
  /\ GrpParked
  /\ ExtParked

\* initMPIcomms up to the first barrier, on rank r: setDeviceIDs with the
\* caller's nDevs (nothing on the way tests it).  With nDevs = 0 the third
\* branch divides by zero: the process is stopped by the trap, or, where the
\* division does not trap, goes on with quotient 0 and remainder localSize,
\* which make devID = myLocalRank / 1 and gpuProc = 0.
NodeSetDeviceIDs(r) ==
  /\ UNCHANGED nodeOthers
  /\ pc[r] \in {"new", "again"}
  /\ IF nDevs = 0
       THEN \E trap \in BOOLEAN :
              IF trap
                THEN /\ pc' = [pc EXCEPT ![r] = "crashed"]
                     /\ UNCHANGED <<devID, gpuProc>>
                ELSE /\ devID' = [devID EXCEPT ![r] = r \div 1]
                     /\ gpuProc' = [gpuProc EXCEPT ![r] = 0]
                     /\ pc' = [pc EXCEPT ![r] = "assigned"]
       ELSE /\ devID' = [devID EXCEPT ![r] = DevIDOf(localSize, nDevs, r)]
            /\ gpuProc' = [gpuProc EXCEPT ![r] = GpuProcOf(localSize, nDevs, r, gpuProc[r])]
            /\ pc' = [pc EXCEPT ![r] = "assigned"]
  /\ UNCHANGED <<localSize, nDevs, gpuWorldSize, myGpuWorldRank, devWorldSize,
                 myDevWorldRank, loc_row_len, local_rows, rowPart>>

\* initMPIcomms from the barrier on: the two MPI_Comm_split calls, collective
NodeCommSplit ==
  /\ UNCHANGED nodeOthers
  /\ \A r \in NodeRanks : pc[r] = "assigned"
  /\ gpuWorldSize' = [r \in NodeRanks |-> SplitSize(NodeRanks, gpuProc, r)]
  /\ myGpuWorldRank' = [r \in NodeRanks |-> SplitRank(NodeRanks, gpuProc, r)]
  /\ devWorldSize' = [r \in NodeRanks |-> SplitSize(NodeRanks, devID, r)]
  /\ myDevWorldRank' = [r \in NodeRanks |-> SplitRank(NodeRanks, devID, r)]
  /\ pc' = [r \in NodeRanks |-> "ready"]
  /\ UNCHANGED <<localSize, nDevs, devID, gpuProc, loc_row_len, local_rows, rowPart>>

\* ---- setA, the row counts: lines 464-476 (Allreduce in devWorld), 494-548
\* (local_rows is set by device-group rank 0 only) and 550-566 (row partition)
RECURSIVE SumOver(_, _)
\* sum of f[q] over the q of the finite set S
SumOver(S, f) ==
  IF S = {} THEN 0
  ELSE LET q == CHOOSE x \in S : TRUE IN f[q] + SumOver(S \ {q}, f)

\* MPI_Allreduce(&loc_row_len, &nDevRows, 1, MPI_INT, MPI_SUM, devWorld) on rank r
AllreduceSum(members, color, r, val) == SumOver(SplitMembers(members, color, r), val)

\* local_rows(0); if (myDevWorldRank == 0) local_rows = nDevRows;
LocalRowsOf(devRank, devRows) == IF devRank = 0 THEN devRows ELSE 0

\* rowPart.SetSize(gpuWorldSize+1); rowPart = 0;
\* MPI_Allgather(&local_rows, 1, .., &rowPart.GetData()[1], 1, .., gpuWorld)
AllgatherRowPart_AtZero(members, color, r, val) ==
  [i \in 0 .. SplitSize(members, color, r) |->
     IF i = SplitSize(members, color, r) THEN 0
     ELSE val[SplitMemberAt(members, color, r, i)]]

AllgatherRowPart(members, color, r, val) ==
  [i \in 0 .. SplitSize(members, color, r) |->
     IF i = 0 THEN 0 ELSE val[SplitMemberAt(members, color, r, i - 1)]]

RECURSIVE RowPartFixup(_, _, _)
\* for (i = 1; i < rowPart.Size(); ++i) rowPart[i] += rowPart[i-1];
RowPartFixup(a, i, n) ==
  IF i >= n THEN a
  ELSE RowPartFixup([a EXCEPT ![i] = a[i] + a[i - 1]], i + 1, n)

NodeSetA ==
  /\ UNCHANGED nodeOthers
  /\ \A r \in NodeRanks : pc[r] = "ready"
  /\ \E rows \in [NodeRanks -> 0 .. MaxRows] :
       LET nDevRowsOf == [r \in NodeRanks |-> AllreduceSum(NodeRanks, devID, r, rows)]
           lr == [r \in NodeRanks |-> LocalRowsOf(myDevWorldRank[r], nDevRowsOf[r])]
       IN /\ loc_row_len' = rows
          /\ local_rows' = lr
          /\ rowPart' = [r \in NodeRanks |->
                IF gpuProc[r] = 0
                  THEN RowPartFixup(AllgatherRowPart(NodeRanks, gpuProc, r, lr),
                                    1, gpuWorldSize[r] + 1)
                  ELSE << >>]
  /\ pc' = [r \in NodeRanks |-> "set"]
  /\ UNCHANGED <<localSize, nDevs, devID, gpuProc, gpuWorldSize, myGpuWorldRank,
                 devWorldSize, myDevWorldRank>>

\* gpuProc as finalize leaves it (line 709), old being its value before
FinalizeGpuProc_Keep(old) == old

FinalizeGpuProc(old) == MPI_UNDEFINED

\* finalize, on every rank (MPI_Comm_free is collective): gpuProc is reset and
\* the communicators are freed; devID and the sizes and ranks read from the
\* communicators keep their values.  The locals of setA and the caller's
\* matrix are gone.
NodeFinalize ==
  /\ UNCHANGED nodeOthers
  /\ \A r \in NodeRanks : pc[r] \in {"ready", "set"}
  /\ gpuProc' = [r \in NodeRanks |-> FinalizeGpuProc(gpuProc[r])]
  /\ pc' = [r \in NodeRanks |-> "finalized"]
  /\ loc_row_len' = [r \in NodeRanks |-> 0]
  /\ local_rows' = [r \in NodeRanks |-> 0]
  /\ rowPart' = [r \in NodeRanks |-> << >>]
  /\ UNCHANGED <<localSize, nDevs, devID, gpuWorldSize, myGpuWorldRank,
                 devWorldSize, myDevWorldRank>>

\* the caller initializes the finalized instances again, with a device count
\* of its choice and a communicator of its choice: the first n processes of
\* the node are in the new communicator, with the fields finalize left them
NodeReinitialize ==
  /\ UNCHANGED nodeOthers
  /\ \A r \in NodeRanks : pc[r] = "finalized"
  /\ nDevs' \in 0 .. MaxD
  /\ \E n \in 1 .. localSize :
       /\ localSize' = n
       /\ pc' = [r \in Ranks(n) |-> "again"]
       /\ devID' = [r \in Ranks(n) |-> devID[r]]
       /\ gpuProc' = [r \in Ranks(n) |-> gpuProc[r]]
       /\ gpuWorldSize' = [r \in Ranks(n) |-> gpuWorldSize[r]]
       /\ myGpuWorldRank' = [r \in Ranks(n) |-> myGpuWorldRank[r]]
       /\ devWorldSize' = [r \in Ranks(n) |-> devWorldSize[r]]
       /\ myDevWorldRank' = [r \in Ranks(n) |-> myDevWorldRank[r]]
       /\ loc_row_len' = [r \in Ranks(n) |-> loc_row_len[r]]
       /\ local_rows' = [r \in Ranks(n) |-> local_rows[r]]
       /\ rowPart' = [r \in Ranks(n) |-> rowPart[r]]

NodeNext ==
  \/ \E r \in NodeRanks : NodeSetDeviceIDs(r)
  \/ NodeCommSplit
  \/ NodeSetA
  \/ NodeFinalize
  \/ NodeReinitialize

SpecNode == NodeInit /\ [][NodeNext]_vars

\* -------------------------------------------------- SpecNode: properties
\* every rank has run setDeviceIDs in the current life of its instance
NodeAssigned == \A r \in NodeRanks : pc[r] \in {"assigned", "ready", "set"}

DeviceGroup(d) == {r \in NodeRanks : devID[r] = d}
Leaders == {r \in NodeRanks : gpuProc[r] = 0}

\* C2: for 1 <= D <= P, once every rank has run setDeviceIDs, every rank has a
\* device id in [0, D), every device id in [0, D) has exactly one leader among
\* its ranks, and the sizes of the device groups differ by at most 1.
C2_DeviceAssignment ==
  (NodeAssigned /\ 1 <= nDevs /\ nDevs <= localSize) =>
     /\ \A r \in NodeRanks : devID[r] \in 0 .. (nDevs - 1)
     /\ \A d \in 0 .. (nDevs - 1) :
          Cardinality({r \in DeviceGroup(d) : gpuProc[r] = 0}) = 1
     /\ UNION {DeviceGroup(d) : d \in 0 .. (nDevs - 1)} = NodeRanks
     /\ \A d1, d2 \in 0 .. (nDevs - 1) :
          Cardinality(DeviceGroup(d1)) - Cardinality(DeviceGroup(d2)) \in {-1, 0, 1}

\* 5 processes on 3 devices: groups of 2, 2 and 1
C2_Witness ==
  /\ NodeAssigned
  /\ localSize = 5 /\ nDevs = 3
  /\ Cardinality(DeviceGroup(0)) = 2 /\ Cardinality(DeviceGroup(2)) = 1
  /\ Leaders = {0, 2, 4}

\* C3: for D < P the ranks are assigned in contiguous blocks in rank order, the
\* first rem = P % D blocks of base + 1 = P / D + 1 ranks and the others of
\* base ranks, and the leader of a block is its lowest rank and no other.
C3_ContiguousBlocks ==
  (NodeAssigned /\ 1 <= nDevs /\ nDevs < localSize) =>
     LET base == localSize \div nDevs
         rem  == localSize % nDevs
         BlockLen(d)   == IF d < rem THEN base + 1 ELSE base
         BlockStart(d) == IF d < rem THEN d * (base + 1)
                          ELSE rem * (base + 1) + (d - rem) * base
     IN \A d \in 0 .. (nDevs - 1) :
          /\ DeviceGroup(d) = BlockStart(d) .. (BlockStart(d) + BlockLen(d) - 1)
          /\ \A r \in DeviceGroup(d) : (gpuProc[r] = 0) <=> (r = BlockStart(d))

\* the scenario: P = 4, D = 2
C3_Witness ==
  /\ NodeAssigned
  /\ localSize = 4 /\ nDevs = 2
  /\ DeviceGroup(0) = {0, 1} /\ DeviceGroup(1) = {2, 3}
  /\ Leaders = {0, 2}

\* C5: the row partition of every leader has one entry per leader plus a
\* leading zero, entry i is the sum of the row counts of the device groups of
\* the first i leaders, it is monotone, its last entry is the number of rows
\* of all ranks, and all leaders hold the same table.
C5_RowPartition ==
  (\A r \in NodeRanks : pc[r] = "set") =>
     LET G == Cardinality(Leaders)
         Pos(l) == Cardinality({q \in Leaders : q < l})
         GroupRows == [l \in Leaders |-> SumOver(DeviceGroup(devID[l]), loc_row_len)]
     IN \A l \in Leaders :
          /\ DOMAIN rowPart[l] = 0 .. G
          /\ rowPart[l][0] = 0
          /\ \A i \in 1 .. G :
               /\ rowPart[l][i] = SumOver({q \in Leaders : Pos(q) < i}, GroupRows)
               /\ rowPart[l][i] = SumOver({q \in Leaders : Pos(q) < i}, local_rows)
               /\ rowPart[l][i - 1] <= rowPart[l][i]
          /\ rowPart[l][G] = SumOver(NodeRanks, loc_row_len)
          /\ \A l2 \in Leaders : rowPart[l2] = rowPart[l]

\* three device groups, of 2, 2 and 1 ranks, with 3, 1 and 2 rows
C5_Witness ==
  /\ \A r \in NodeRanks : pc[r] = "set"
  /\ localSize = 5 /\ nDevs = 3
  /\ loc_row_len = [r \in 0 .. 4 |-> IF r \in {0, 3} THEN 1 ELSE IF r = 2 THEN 0 ELSE 2]
  /\ \A l \in {0, 2, 4} : rowPart[l] = [i \in 0 .. 3 |-> IF i = 0 THEN 0 ELSE IF i = 1 THEN 3 ELSE IF i = 2 THEN 4 ELSE 6]

\* ---------------------------------------------------------------------
\* SpecLife: the instances of one process.  The caller may call initialize
\* and finalize on any constructed instance in any order; it calls setA and
\* solve on initialized instances only (on a finalized instance devWorld is
\* MPI_COMM_NULL and their first collective is an MPI error).  The other
\* processes of the communicators take part in every collective.
\* ---------------------------------------------------------------------
Inst == 1 .. NInst

\* the (localSize, nDevs, myLocalRank) an initialize of this process may see:
\* leader of a device group of two, second rank of that group, and the last
\* rank of a node with three processes and two devices (alone on its device)
LifeTopos ==
  {[localSize |-> 2, nDevs |-> 1, myLocalRank |-> 0],
   [localSize |-> 2, nDevs |-> 1, myLocalRank |-> 1],
   [localSize |-> 3, nDevs |-> 2, myLocalRank |-> 2]}

\* the modeStr arguments tried
Modes == {"dDDI", "hDDI"}

\* setMode: the mode it stores, or the mfem_error of its else branch
SetMode_AnyMode(modeStr) == "AMGX_mode_dDDI"
SetMode(modeStr) == IF modeStr = "dDDI" THEN "AMGX_mode_dDDI" ELSE "mfem_error"

\* ---- the solve-engine calls of each member function
\* initAmgX, called with the incremented count
InitAmgXCalls(cnt) ==
  (IF cnt = 1
     THEN {"AMGX_initialize", "AMGX_initialize_plugins",
           "AMGX_install_signal_handler", "AMGX_resources_create"}
     ELSE {})
  \cup {"AMGX_config_create_from_file", "AMGX_config_add_parameters",
        "AMGX_vector_create", "AMGX_matrix_create", "AMGX_solver_create",
        "AMGX_config_get_default_number_of_rings"}

\* initialize: if (gpuProc == 0) initAmgX(cfgFile);
InitializeCalls(gp, cnt) == IF gp = 0 THEN InitAmgXCalls(cnt) ELSE {}

\* setA: if (gpuProc == 0) { ... }
SetACalls(gp) ==
  IF gp = 0
    THEN {"AMGX_distribution_create", "AMGX_distribution_set_partition_data",
          "AMGX_matrix_upload_distributed", "AMGX_distribution_destroy",
          "AMGX_solver_setup", "AMGX_vector_bind"}
    ELSE {}

\* solve: if (gpuWorld != MPI_COMM_NULL) { ... }
SolveCalls_NoGuard(gw) ==
  {"AMGX_vector_upload", "AMGX_solver_solve", "AMGX_solver_get_status",
   "AMGX_vector_download"}

SolveCalls(gw) ==
  IF gw # "null"
    THEN {"AMGX_vector_upload", "AMGX_solver_solve", "AMGX_solver_get_status",
          "AMGX_vector_download"}
    ELSE {}

\* finalize: if (gpuProc == 0) { ...; if (count == 1) {...} else {...} }
FinalizeCalls(gp, cnt) ==
  IF gp = 0
    THEN {"AMGX_solver_destroy", "AMGX_matrix_destroy", "AMGX_vector_destroy",
          "AMGX_config_destroy"}
         \cup (IF cnt = 1
                 THEN {"AMGX_resources_destroy", "AMGX_finalize_plugins", "AMGX_finalize"}
                 ELSE {})
    ELSE {}

\* MPI_Comm_split(globalCpuWorld, gpuProc, 0, &gpuWorld): the handle the caller gets
GpuWorldHandle(gp) == IF gp = MPI_UNDEFINED THEN "null" ELSE "live"

\* devID and gpuProc of every rank of the node of topology t (every rank runs
\* setDeviceIDs on a finalized or new instance)
TopoDevID(t) == [q \in Ranks(t.localSize) |-> DevIDOf(t.localSize, t.nDevs, q)]
TopoGpuProc(t) ==
  [q \in Ranks(t.localSize) |-> GpuProcOf(t.localSize, t.nDevs, q, FreshGpuProc)]

LifeInit ==
  /\ count = 0
  /\ rsrc = "null"
  /\ amgx = "down"
  /\ aborted = FALSE
  /\ isInitialized = [i \in Inst |-> FALSE]
  /\ pc = [i \in Inst |-> "unborn"]
  /\ gpuProc = [i \in Inst |-> FreshGpuProc]
  /\ devID = [i \in Inst |-> Unset]
  /\ gpuWorldSize = [i \in Inst |-> Unset]
  /\ myGpuWorldRank = [i \in Inst |-> Unset]
  /\ devWorldSize = [i \in Inst |-> Unset]
  /\ myDevWorldRank = [i \in Inst |-> Unset]
  /\ comm = [i \in Inst |-> [globalCpuWorld |-> Unset, localCpuWorld |-> Unset,
                             devWorld |-> Unset, gpuWorld |-> Unset]]
  /\ handles = [i \in Inst |-> "none"]
  /\ setADone = [i \in Inst |-> FALSE]
  /\ m_local_rows = << >>
  /\ topo = [i \in Inst |-> Unset]
  /\ last = [op |-> "none", inst |-> 0, calls |-> {}, mode |-> "none"]
  /\ NodeParked
  /\ GrpParked
  /\ ExtParked

\* initialize(comm, modeStr, cfgFile, nDevs) on instance i (the constructor,
\* or a call on a constructed instance)
LifeInitialize(i) ==
  /\ UNCHANGED lifeOthers
  /\ ~aborted
  /\ \E t \in LifeTopos, modeStr \in Modes :
       IF isInitialized[i]
         THEN \* mfem_error("This AmgXSolver instance has been initialized ...")
              /\ aborted' = TRUE
              /\ last' = [op |-> "initialize", inst |-> i, calls |-> {}, mode |-> modeStr]
              /\ UNCHANGED <<count, rsrc, amgx, isInitialized, comm, handles, setADone,
                             topo, pc, devID, gpuProc, gpuWorldSize,
                             myGpuWorldRank, devWorldSize, myDevWorldRank>>
       ELSE IF SetMode(modeStr) = "mfem_error"
         THEN \* count += 1; setMode: mfem_error("Mode not supported")
              /\ count' = count + 1
              /\ aborted' = TRUE
              /\ last' = [op |-> "initialize", inst |-> i, calls |-> {}, mode |-> modeStr]
              /\ UNCHANGED <<rsrc, amgx, isInitialized, comm, handles, setADone,
                             topo, pc, devID, gpuProc, gpuWorldSize,
                             myGpuWorldRank, devWorldSize, myDevWorldRank>>
       ELSE LET r     == t.myLocalRank
                gp    == GpuProcOf(t.localSize, t.nDevs, r, gpuProc[i])
                colG  == [TopoGpuProc(t) EXCEPT ![r] = gp]
                colD  == TopoDevID(t)
                calls == InitializeCalls(gp, count + 1)
            IN /\ count' = count + 1
               /\ topo' = [topo EXCEPT ![i] = t]
               /\ devID' = [devID EXCEPT ![i] = colD[r]]
               /\ gpuProc' = [gpuProc EXCEPT ![i] = gp]
               /\ comm' = [comm EXCEPT ![i] =
                              [globalCpuWorld |-> "live", localCpuWorld |-> "live",
                               devWorld |-> "live", gpuWorld |-> GpuWorldHandle(gp)]]
               /\ gpuWorldSize' = [gpuWorldSize EXCEPT ![i] =
                                      SplitSize(Ranks(t.localSize), colG, r)]
               /\ myGpuWorldRank' = [myGpuWorldRank EXCEPT ![i] =
                                        SplitRank(Ranks(t.localSize), colG, r)]
               /\ devWorldSize' = [devWorldSize EXCEPT ![i] =
                                      SplitSize(Ranks(t.localSize), colD, r)]
               /\ myDevWorldRank' = [myDevWorldRank EXCEPT ![i] =
                                        SplitRank(Ranks(t.localSize), colD, r)]
               /\ amgx' = IF "AMGX_initialize" \in calls THEN "up" ELSE amgx
               /\ rsrc' = IF "AMGX_resources_create" \in calls THEN "live" ELSE rsrc
               /\ handles' = [handles EXCEPT ![i] =
                                 IF "AMGX_solver_create" \in calls THEN "live" ELSE @]
               /\ isInitialized' = [isInitialized EXCEPT ![i] = TRUE]
               /\ setADone' = [setADone EXCEPT ![i] = FALSE]
               /\ pc' = [pc EXCEPT ![i] = "live"]
               /\ last' = [op |-> "initialize", inst |-> i, calls |-> calls, mode |-> modeStr]
               /\ UNCHANGED aborted

\* setA(A) on instance i: the arrays and m_local_rows are in SpecGroup; here
\* its engine calls
LifeSetA(i) ==
  /\ UNCHANGED lifeOthers
  /\ ~aborted
  /\ isInitialized[i]
  /\ setADone' = [setADone EXCEPT ![i] = TRUE]
  /\ last' = [op |-> "setA", inst |-> i, calls |-> SetACalls(gpuProc[i]),
              mode |-> "none"]
  /\ UNCHANGED <<count, rsrc, amgx, aborted, isInitialized, comm, handles, topo, pc,
                 devID, gpuProc, gpuWorldSize, myGpuWorldRank, devWorldSize,
                 myDevWorldRank>>

\* solve(X, B) on instance i: nothing in solve tests that setA has run
LifeSolve(i) ==
  /\ UNCHANGED lifeOthers
  /\ ~aborted
  /\ isInitialized[i]
  /\ last' = [op |-> "solve", inst |-> i, calls |-> SolveCalls(comm[i].gpuWorld),
              mode |-> "none"]
  /\ UNCHANGED <<count, rsrc, amgx, aborted, isInitialized, comm, handles, setADone,
                 topo, pc, devID, gpuProc, gpuWorldSize, myGpuWorldRank,
                 devWorldSize, myDevWorldRank>>

\* MPI_Comm_free(&h): a live communicator is freed and the handle set to
\* MPI_COMM_NULL; on MPI_COMM_NULL the call is an MPI error
CommFree(h) == "null"

\* finalize() on a constructed instance i.  When the instance is not
\* initialized the code prints the diagnostic and goes on; MPI_Comm_free of
\* its already freed communicators is then an MPI error, which ends the run
\* under MPI_ERRORS_ARE_FATAL and returns under MPI_ERRORS_RETURN.
LifeFinalize(i) ==
  /\ UNCHANGED lifeOthers
  /\ ~aborted
  /\ pc[i] # "unborn"
  /\ count > -MaxUnderflow
  /\ LET calls == FinalizeCalls(gpuProc[i], count)
         freed == comm[i].globalCpuWorld = "null" \/ comm[i].localCpuWorld = "null"
                  \/ comm[i].devWorld = "null"
     IN \E fatal \in (IF freed THEN BOOLEAN ELSE {FALSE}) :
          /\ last' = [op |-> "finalize", inst |-> i, calls |-> calls, mode |-> "none"]
          /\ handles' = [handles EXCEPT ![i] =
                            IF "AMGX_solver_destroy" \in calls THEN "destroyed" ELSE @]
          /\ rsrc' = IF "AMGX_resources_destroy" \in calls THEN "destroyed" ELSE rsrc
          /\ amgx' = IF "AMGX_finalize" \in calls THEN "down" ELSE amgx
          /\ gpuProc' = [gpuProc EXCEPT ![i] = MPI_UNDEFINED]
          /\ IF fatal
               THEN /\ aborted' = TRUE
                    /\ UNCHANGED <<comm, count, isInitialized, setADone, pc>>
               ELSE /\ comm' = [comm EXCEPT ![i].globalCpuWorld = CommFree(@),
                                            ![i].localCpuWorld = CommFree(@),
                                            ![i].devWorld = CommFree(@)]
                    /\ count' = count - 1
                    /\ isInitialized' = [isInitialized EXCEPT ![i] = FALSE]
                    /\ setADone' = [setADone EXCEPT ![i] = FALSE]
                    /\ pc' = [pc EXCEPT ![i] = "finalized"]
                    /\ UNCHANGED aborted
          /\ UNCHANGED <<topo, devID, gpuWorldSize, myGpuWorldRank,
                         devWorldSize, myDevWorldRank>>

LifeNext ==
  \/ \E i \in Inst : LifeInitialize(i)
  \/ \E i \in Inst : LifeSetA(i)
  \/ \E i \in Inst : LifeSolve(i)
  \/ \E i \in Inst : LifeFinalize(i)

SpecLife == LifeInit /\ [][LifeNext]_vars

\* -------------------------------------------------- SpecLife: properties
\* the instances of the process that are initialized
LiveCount == Cardinality({i \in Inst : isInitialized[i]})

\* the rank of topology t is the lowest rank of its device group
GroupLeader(t) ==
  \A q \in Ranks(t.localSize) :
     q < t.myLocalRank =>
        DevIDOf(t.localSize, t.nDevs, q) # DevIDOf(t.localSize, t.nDevs, t.myLocalRank)

\* C4: the engine is started (and rsrc created) only by the call that raises
\* the number of live instances from 0 to 1, and by every such call of a
\* leader instance; it is torn down (and rsrc destroyed) only by the call that
\* lowers it from 1 to 0, and by every such call of a leader instance; a
\* startup finds the engine down and a teardown finds it up.
C4_FirstStartsLastStops ==
  [][LET started   == "AMGX_initialize" \in last'.calls
         created   == "AMGX_resources_create" \in last'.calls
         stopped   == "AMGX_finalize" \in last'.calls
         destroyed == "AMGX_resources_destroy" \in last'.calls
         byLeader  == \/ last'.op = "initialize" /\ gpuProc'[last'.inst] = 0
                      \/ last'.op = "finalize" /\ gpuProc[last'.inst] = 0
     IN /\ (started \/ created) =>
             (started /\ created /\ LiveCount = 0 /\ LiveCount' = 1 /\ amgx = "down")
        /\ (stopped \/ destroyed) =>
             (stopped /\ destroyed /\ LiveCount = 1 /\ LiveCount' = 0 /\ amgx = "up")
        /\ (byLeader /\ LiveCount = 0 /\ LiveCount' = 1) => started
        /\ (byLeader /\ LiveCount = 1 /\ LiveCount' = 0) => stopped
    ]_vars

\* C8: a solve call runs only on an instance whose setA has completed.
C8_SetupBeforeSolve ==
  [][last'.op = "solve" => setADone[last'.inst]]_vars

\* C9: whenever a call of initialize, setA, solve or finalize makes a
\* solve-engine call, the instance's process is the leader (lowest rank) of
\* its device group and a member of gpuWorld.
C9_OnlyLeadersCallEngine ==
  last.calls # {} =>
     /\ GroupLeader(topo[last.inst])
     /\ comm[last.inst].gpuWorld = "live"

\* a non-leader instance has run initialize, setA and solve without an engine
\* call, next to a leader instance that holds engine handles
C9_Witness ==
  /\ last.op = "solve" /\ last.calls = {}
  /\ setADone[last.inst]
  /\ ~GroupLeader(topo[last.inst])
  /\ \E j \in Inst : j # last.inst /\ isInitialized[j] /\ handles[j] = "live"

\* C10: finalize on an instance that is not initialized changes neither the
\* counter, nor the leader and device state, nor the communicators, nor the
\* engine state, it does not end the run, and the counter still is the number
\* of live instances.
C10_FinalizeBeforeInitNoOp ==
  [][(last'.op = "finalize" /\ ~isInitialized[last'.inst]) =>
        /\ count' = count /\ gpuProc' = gpuProc /\ devID' = devID /\ comm' = comm
        /\ amgx' = amgx /\ rsrc' = rsrc /\ ~aborted'
        /\ count' = LiveCount'
    ]_vars

\* ---------------------------------------------------------------------
\* SpecGroup: the k = devWorldSize processes of one device group, rank 0 of
\* devWorld being the leader (gpuProc == 0).  setA is followed step by step
\* through its gathers, the passes of the merge loop and the upload; solve
\* through its gathers, the engine calls and the scatter.  The arrays are
\* functions on 0 .. Size-1.  The caller calls setA once and then solve, with
\* vectors of its local row count (the input contract of solve); the row
\* partition of setA, which spans the other device groups, is in SpecNode.
\* ---------------------------------------------------------------------
Size(a) == Cardinality(DOMAIN a)
Arr(n, v) == [p \in 0 .. (n - 1) |-> v]

\* content of an array entry that has not been written
Junk == 0 - 7

\* rows per rank and non-zeros per row of the matrices tried
FragRows == {0, 1, 2}
FragRowNnz == {0, 2}

\* GetLocalA: I[0] = 0; I[i+1] = I[i] + (non-zeros of row i)
RowPointer(n, nnz) == [i \in 0 .. n |-> SumTo(nnz, i)]

\* the row pointers GetLocalA can return, and the three of the merge scenario
Fragments ==
  UNION {{RowPointer(n, nnz) : nnz \in [0 .. (n - 1) -> FragRowNnz]} : n \in FragRows}
  \cup {[i \in 0 .. 2 |-> IF i = 0 THEN 0 ELSE IF i = 1 THEN 2 ELSE 5],
        [i \in 0 .. 1 |-> IF i = 0 THEN 0 ELSE 3],
        [i \in 0 .. 2 |-> IF i = 0 THEN 0 ELSE IF i = 1 THEN 1 ELSE 4]}

\* J and Data of GetLocalA have I[row_len] entries; entry j of rank r is
\* given a value that names it
LocJ(frag, r) == [j \in 0 .. (frag[Size(frag) - 1] - 1) |-> 1000 + 100 * r + j]
LocA(frag, r) == [j \in 0 .. (frag[Size(frag) - 1] - 1) |-> 2000 + 100 * r + j]
\* the caller's X and B: one entry per local row
VecX(n, r) == [j \in 0 .. (n - 1) |-> 3000 + 100 * r + j]
VecB(n, r) == [j \in 0 .. (n - 1) |-> 4000 + 100 * r + j]
\* what the engine leaves in its solution buffer
Solution(n) == [p \in 0 .. (n - 1) |-> 5000 + p]

\* ---- GatherArray / ScatterArray
\* MPI_Allgather(&locAsz, 1, MPI_INT, Apart.GetData(), 1, MPI_INT, mpiTeam)
AllgatherSizes(in, n) == [i \in Ranks(n) |-> Size(in[i])]

RECURSIVE DisplLoop_NextCount(_, _, _, _)
DisplLoop_NextCount(Adisp, Apart, i, n) ==
  IF i >= n THEN Adisp
  ELSE DisplLoop_NextCount([Adisp EXCEPT ![i] = Adisp[i - 1] + Apart[i]], Apart, i + 1, n)

RECURSIVE DisplLoop(_, _, _, _)
\* Adisp[0] = 0; for (i = 1; i < MPI_SZ; ++i) Adisp[i] = Adisp[i-1] + Apart[i-1];
DisplLoop(Adisp, Apart, i, n) ==
  IF i >= n THEN Adisp
  ELSE DisplLoop([Adisp EXCEPT ![i] = Adisp[i - 1] + Apart[i - 1]], Apart, i + 1, n)

Displacements(Apart, n) == DisplLoop([i \in Ranks(n) |-> 0], Apart, 1, n)

\* MPI_Gatherv(in, in.Size(), .., out, Apart, Adisp, .., 0, mpiTeam) at the
\* root: the Apart[i] entries of rank i go to out[Adisp[i] ..]
Gatherv(in, Apart, Adisp, out, n) ==
  [p \in DOMAIN out |->
     IF \E i \in Ranks(n) : Adisp[i] <= p /\ p < Adisp[i] + Apart[i] /\ p - Adisp[i] < Size(in[i])
       THEN LET i == CHOOSE q \in Ranks(n) :
                       Adisp[q] <= p /\ p < Adisp[q] + Apart[q] /\ p - Adisp[q] < Size(in[q])
            IN in[i][p - Adisp[i]]
       ELSE out[p]]

\* MPI_Scatterv(in, Apart, Adisp, .., out, out.Size(), .., 0, mpi_comm) on
\* rank i: the entries in[Adisp[i] ..] arrive in out
Scatterv_FromZero(in, Apart, Adisp, out, i) ==
  [j \in DOMAIN out |->
     IF j < Apart[i] /\ j \in DOMAIN in THEN in[j] ELSE out[j]]

Scatterv(in, Apart, Adisp, out, i) ==
  [j \in DOMAIN out |->
     IF j < Apart[i] /\ (Adisp[i] + j) \in DOMAIN in THEN in[Adisp[i] + j] ELSE out[j]]

\* the descriptor a GatherArray call builds, and the buffer of its root
Descriptor(in, n) ==
  [Apart |-> AllgatherSizes(in, n), Adisp |-> Displacements(AllgatherSizes(in, n), n)]
GatherArray(in, out, n) ==
  Gatherv(in, AllgatherSizes(in, n), Displacements(AllgatherSizes(in, n), n), out, n)

\* ---- the merge loop of setA
\* the indices idx in 1 .. Size-2 with all_I[idx] == 0, and the c-th of them
ZeroIdx(a) == {idx \in 1 .. (Size(a) - 2) : a[idx] = 0}
NthZero(a, c) == CHOOSE z \in ZeroIdx(a) : Cardinality({y \in ZeroIdx(a) : y < z}) = c - 1

\* (the scan storing idx in place of idx - 1)
ZScan_AtZero(a, z, n) ==
  [c \in 0 .. n |->
     IF c = n THEN Size(a) - 1
     ELSE IF c = 0 THEN 0
     ELSE IF c <= Cardinality(ZeroIdx(a)) THEN NthZero(a, c)
     ELSE z[c]]

\* z_ind after the scan of one pass: z_ind[0] = 0, z_ind[c] = (c-th zero) - 1,
\* then z_ind[devWorldSize] = all_I.Size() - 1; writes beyond z_ind[n] are
\* reported by ScanOverflows
ZScan(a, z, n) ==
  [c \in 0 .. n |->
     IF c = n THEN Size(a) - 1
     ELSE IF c = 0 THEN 0
     ELSE IF c <= Cardinality(ZeroIdx(a)) THEN NthZero(a, c) - 1
     ELSE z[c]]
ScanWrites(a, n) ==
  {0, n} \cup {c \in 1 .. n : c <= Cardinality(ZeroIdx(a))}
ScanOverflows(a, n) == Cardinality(ZeroIdx(a)) > n

RECURSIVE Bump(_, _, _)
\* for (idx = from; idx < to; idx++)
\*   all_I[idx] = all_I[idx-1] + (all_I[idx+1] - all_I[idx]);
Bump(a, idx, to) ==
  IF idx >= to THEN a
  ELSE Bump([a EXCEPT ![idx] = a[idx - 1] + (a[idx + 1] - a[idx])], idx + 1, to)
\* every index the bump loop uses is inside all_I
BumpInBounds(a, from, to) == from >= to \/ (from >= 1 /\ to <= Size(a) - 1)

RECURSIVE Shift(_, _)
\* for (idx = from; idx < all_I.Size()-1; ++idx) all_I[idx] = all_I[idx+1];
Shift(a, idx) ==
  IF idx >= Size(a) - 1 THEN a
  ELSE Shift([a EXCEPT ![idx] = a[idx + 1]], idx + 1)
ShiftInBounds(a, from) == from >= Size(a) - 1 \/ from >= 0

\* what a read of z_ind[c] can return: the entry if it has been written, any
\* value otherwise
ZRead(z, written, c, a) == IF c \in written THEN {z[c]} ELSE (0 - 1) .. (Size(a) - 1)

\* after an access outside an array: what all_I may hold if the run goes on
Havoc(a) == {a, [p \in DOMAIN a |-> 0]}

\* ---- the actions of SpecGroup
GroupSize == devWorldSize[0]
GroupRanks == Ranks(GroupSize)

\* all_I.SetSize(nDevRows + devWorldSize)
AllISize(rows, n) == rows + n

GroupInit ==
  /\ devWorldSize \in {[r \in Ranks(n) |-> n] : n \in 1 .. MaxK}
  /\ myDevWorldRank = [r \in DOMAIN devWorldSize |-> r]
  /\ gpuProc = [r \in DOMAIN devWorldSize |-> IF r = 0 THEN 0 ELSE MPI_UNDEFINED]
  /\ loc_I \in [DOMAIN devWorldSize -> Fragments]
  /\ loc_row_len = [r \in DOMAIN devWorldSize |-> Size(loc_I[r]) - 1]
  /\ X = [r \in DOMAIN devWorldSize |-> VecX(Size(loc_I[r]) - 1, r)]
  /\ B = [r \in DOMAIN devWorldSize |-> VecB(Size(loc_I[r]) - 1, r)]
  /\ local_rows = [r \in DOMAIN devWorldSize |-> 0]
  /\ m_local_rows = [r \in DOMAIN devWorldSize |-> Unset]
  /\ phase = "start"
  /\ nDevRows = 0 /\ all_I = << >> /\ all_J = << >> /\ all_A = << >>
  /\ desc = << >> /\ z_ind = << >> /\ z_init = {} /\ z_fresh = {}
  /\ iter = 0 /\ local_nnz = 0 /\ ub = FALSE
  /\ all_X = << >> /\ all_B = << >> /\ X0 = << >> /\ gatheredX = << >>
  /\ status = "none" /\ AmgXA = << >>
  /\ localSize = 0 /\ nDevs = 0 /\ rowPart = << >>
  /\ pc = << >> /\ devID = << >> /\ gpuWorldSize = << >> /\ myGpuWorldRank = << >>
  /\ count = 0 /\ rsrc = "null" /\ amgx = "down" /\ aborted = FALSE
  /\ isInitialized = << >> /\ comm = << >> /\ handles = << >> /\ setADone = << >>
  /\ topo = << >> /\ last = << >>
  /\ ExtParked

\* setA, lines 447-492: GetLocalA, the three MPI_Allreduce, the sizing of the
\* leader's arrays and the three GatherArray calls
GSetAGather ==
  /\ UNCHANGED grpOthers
  /\ phase = "start"
  /\ LET n    == GroupSize
         inJ  == [r \in GroupRanks |-> LocJ(loc_I[r], r)]
         inA  == [r \in GroupRanks |-> LocA(loc_I[r], r)]
         rows == SumTo(loc_row_len, n)
         J_allsz == SumTo([r \in GroupRanks |-> Size(inJ[r])], n)
         all_NNZ == SumTo([r \in GroupRanks |-> Size(inA[r])], n)
     IN /\ nDevRows' = rows
        /\ all_I' = GatherArray(loc_I, Arr(AllISize(rows, n), Junk), n)
        /\ all_J' = GatherArray(inJ, Arr(J_allsz, 0), n)
        /\ all_A' = GatherArray(inA, Arr(all_NNZ, Junk), n)
        /\ desc' = [I |-> Descriptor(loc_I, n), J |-> Descriptor(inJ, n),
                    A |-> Descriptor(inA, n)]
        /\ z_ind' = Arr(n + 1, Junk)
  /\ z_init' = {}
  /\ z_fresh' = {}
  /\ iter' = 1
  /\ phase' = "merge"
  /\ UNCHANGED <<devWorldSize, myDevWorldRank, gpuProc, loc_row_len, local_rows,
                 m_local_rows, loc_I, local_nnz, ub, X, B, all_X, all_B, X0,
                 gatheredX, status, AmgXA>>

\* one pass of while (iter < devWorldSize-1), lines 501-526: scan, bump, shift
GMergePass ==
  /\ UNCHANGED grpOthers
  /\ phase = "merge"
  /\ iter < GroupSize - 1
  /\ LET n     == GroupSize
         z1    == ZScan(all_I, z_ind, n)
         init1 == z_init \cup ScanWrites(all_I, n)
         over  == ScanOverflows(all_I, n)
     IN \E g1 \in ZRead(z1, init1, 1, all_I), g2 \in ZRead(z1, init1, 2, all_I),
           goOn \in BOOLEAN :
          LET inB == BumpInBounds(all_I, g1 + 1, g2) /\ ShiftInBounds(all_I, g2)
          IN /\ z_ind' = [z1 EXCEPT ![1] = g1, ![2] = g2]
             /\ z_init' = init1
             /\ z_fresh' = ScanWrites(all_I, n)
             /\ ub' = (ub \/ over \/ ~inB \/ ~({1, 2} \subseteq init1))
             /\ (over \/ ~inB) \/ goOn
             /\ IF goOn
                  THEN /\ all_I' \in (IF inB THEN {Shift(Bump(all_I, g1 + 1, g2), g2)}
                                      ELSE Havoc(all_I))
                       /\ iter' = iter + 1
                       /\ phase' = "merge"
                  ELSE /\ phase' = "crashed"
                       /\ UNCHANGED <<all_I, iter>>
  /\ UNCHANGED <<devWorldSize, myDevWorldRank, gpuProc, loc_row_len, local_rows,
                 m_local_rows, loc_I, nDevRows, all_J, all_A, desc, local_nnz, X, B,
                 all_X, all_B, X0, gatheredX, status, AmgXA>>

\* the last pass, lines 528-548: scan, bump to the end, local_nnz, local_rows;
\* then m_local_rows = local_rows on every rank (line 551)
GMergeLast ==
  /\ UNCHANGED grpOthers
  /\ phase = "merge"
  /\ ~(iter < GroupSize - 1)
  /\ LET n     == GroupSize
         z1    == ZScan(all_I, z_ind, n)
         init1 == z_init \cup ScanWrites(all_I, n)
         over  == ScanOverflows(all_I, n)
         lr    == [r \in GroupRanks |-> LocalRowsOf(myDevWorldRank[r], nDevRows)]
     IN \E g1 \in ZRead(z1, init1, 1, all_I), goOn \in BOOLEAN :
          LET inB == BumpInBounds(all_I, g1 + 1, Size(all_I) - 1)
          IN /\ z_ind' = [z1 EXCEPT ![1] = g1]
             /\ z_init' = init1
             /\ z_fresh' = ScanWrites(all_I, n)
             /\ ub' = (ub \/ over \/ ~inB \/ ~(1 \in init1))
             /\ (over \/ ~inB) \/ goOn
             /\ IF goOn
                  THEN /\ all_I' \in (IF inB THEN {Bump(all_I, g1 + 1, Size(all_I) - 1)}
                                      ELSE Havoc(all_I))
                       /\ local_nnz' = all_I'[Size(all_I) - n]
                       /\ local_rows' = lr
                       /\ m_local_rows' = lr
                       /\ phase' = "merged"
                  ELSE /\ phase' = "crashed"
                       /\ UNCHANGED <<all_I, local_nnz, local_rows, m_local_rows>>
  /\ UNCHANGED <<devWorldSize, myDevWorldRank, gpuProc, loc_row_len, loc_I, nDevRows,
                 all_J, all_A, desc, iter, X, B, all_X, all_B, X0, gatheredX, status,
                 AmgXA>>

\* lines 555-595 on the leader: AMGX_matrix_upload_distributed with local_rows
\* and local_nnz, solver setup, vector bind; setA returns and its locals end
GUpload ==
  /\ UNCHANGED grpOthers
  /\ phase = "merged"
  /\ AmgXA' = IF gpuProc[0] = 0 THEN [rows |-> local_rows[0], nnz |-> local_nnz]
              ELSE AmgXA
  /\ loc_I' = << >> /\ all_I' = << >> /\ all_J' = << >> /\ all_A' = << >>
  /\ desc' = << >> /\ z_ind' = << >> /\ z_init' = {} /\ z_fresh' = {}
  /\ iter' = 0 /\ local_nnz' = 0 /\ nDevRows' = 0
  /\ phase' = "ready"
  /\ UNCHANGED <<devWorldSize, myDevWorldRank, gpuProc, loc_row_len, local_rows,
                 m_local_rows, ub, X, B, all_X, all_B, X0, gatheredX, status>>

\* solve, lines 630-639: all_X and all_B of m_local_rows entries, the two
\* GatherArray calls. SpecGroup follows one setA and the solves after it, with
\* X and B of the rank's row count; a solve with no setA before it is a run of
\* SpecLife
GSolveGather ==
  /\ UNCHANGED grpOthers
  /\ phase \in {"ready", "solved"}
  /\ LET n == GroupSize
     IN /\ all_X' = GatherArray(X, Arr(m_local_rows[0], Junk), n)
        /\ all_B' = GatherArray(B, Arr(m_local_rows[0], Junk), n)
        /\ gatheredX' = GatherArray(X, Arr(m_local_rows[0], Junk), n)
        /\ desc' = [X |-> Descriptor(X, n), B |-> Descriptor(B, n)]
  /\ X0' = X
  /\ phase' = "gathered"
  /\ UNCHANGED <<devWorldSize, myDevWorldRank, gpuProc, loc_row_len, local_rows,
                 m_local_rows, loc_I, nDevRows, all_I, all_J, all_A, z_ind, z_init,
                 z_fresh, iter, local_nnz, ub, X, B, status, AmgXA>>

\* solve, lines 650-658: a status other than AMGX_SOLVE_SUCCESS is printed and
\* the download follows in either case
AfterStatus_FailureStops(st) == IF st = "AMGX_SOLVE_SUCCESS" THEN "downloaded" ELSE "crashed"
AfterStatus(st) == "downloaded"

\* solve, lines 641-660 on the leader: upload, AMGX_solver_solve, the status
\* (printed when it is not success) and the download into all_X; the engine
\* leaves the uploaded values or a solution in its buffer
GEngineSolve ==
  /\ UNCHANGED grpOthers
  /\ phase = "gathered"
  /\ gpuProc[0] = 0
  /\ status' \in {"AMGX_SOLVE_SUCCESS", "AMGX_SOLVE_FAILED"}
  /\ all_X' \in {all_X, Solution(Size(all_X))}
  /\ phase' = AfterStatus(status')
  /\ UNCHANGED <<devWorldSize, myDevWorldRank, gpuProc, loc_row_len, local_rows,
                 m_local_rows, loc_I, nDevRows, all_I, all_J, all_A, desc, z_ind,
                 z_init, z_fresh, iter, local_nnz, ub, X, B, all_B, X0, gatheredX,
                 AmgXA>>

\* solve, line 662: ScatterArray(all_X, X, ..., Apart_X, Adisp_X)
GScatter ==
  /\ UNCHANGED grpOthers
  /\ phase = "downloaded"
  /\ X' = [r \in GroupRanks |-> Scatterv(all_X, desc.X.Apart, desc.X.Adisp, X[r], r)]
  /\ phase' = "solved"
  /\ UNCHANGED <<devWorldSize, myDevWorldRank, gpuProc, loc_row_len, local_rows,
                 m_local_rows, loc_I, nDevRows, all_I, all_J, all_A, desc, z_ind,
                 z_init, z_fresh, iter, local_nnz, ub, B, all_X, all_B, X0, gatheredX,
                 status, AmgXA>>

GroupNext ==
  \/ GSetAGather
  \/ GMergePass
  \/ GMergeLast
  \/ GUpload
  \/ GSolveGather
  \/ GEngineSolve
  \/ GScatter

SpecGroup == GroupInit /\ [][GroupNext]_vars

\* ---- properties of SpecGroup
\* the sum of the first n entries of the per-rank lengths of the fragments
FragLenSum == SumTo([r \in GroupRanks |-> Size(loc_I[r])], GroupSize)
FragFinalSum == SumTo([r \in GroupRanks |-> loc_I[r][Size(loc_I[r]) - 1]], GroupSize)

\* C1: for any k >= 1 monotone row-pointer sequences starting at 0, gathered
\* in rank order and merged, the merged row pointer (the local_rows + 1
\* entries the leader uploads) has length sum(len_i) - (k-1), is monotone
\* non-decreasing, and ends with the sum of the sequences' final values,
\* which is the local_nnz the leader reads (stated of the runs in which every
\* access was of a written entry inside its array)
C1_MergeAnySequences ==
  (phase = "merged" /\ ~ub) =>
    /\ local_rows[0] + 1 = FragLenSum - (GroupSize - 1)
    /\ \A i \in 1 .. local_rows[0] : all_I[i - 1] <= all_I[i]
    /\ all_I[local_rows[0]] = FragFinalSum
    /\ local_nnz = FragFinalSum

DescriptorOK(d, n) ==
  /\ d.Adisp[0] = 0
  /\ \A i \in Ranks(n) : d.Adisp[i] = SumTo(d.Apart, i)

GroupRowTotal == SumTo(loc_row_len, GroupSize)

\* C6: in the three gathers of setA and the two of solve, displacement[0] = 0,
\* displacement[i] is the sum of the counts of the ranks below i, and the
\* leader's buffer is as long as the sum of the counts: the group's rows plus
\* the group size for all_I, the group's non-zeros for all_J and all_A, the
\* group's rows for all_X and all_B (every rank's X and B have its row count
\* as length)
C6_ExchangeDescriptor ==
  /\ phase \in {"merge", "merged"} =>
       /\ DescriptorOK(desc.I, GroupSize)
       /\ DescriptorOK(desc.J, GroupSize)
       /\ DescriptorOK(desc.A, GroupSize)
       /\ Size(all_I) = SumTo(desc.I.Apart, GroupSize)
       /\ Size(all_I) = GroupRowTotal + GroupSize
       /\ Size(all_J) = SumTo(desc.J.Apart, GroupSize)
       /\ Size(all_J) = FragFinalSum
       /\ Size(all_A) = SumTo(desc.A.Apart, GroupSize)
       /\ Size(all_A) = FragFinalSum
  /\ phase \in {"gathered", "downloaded"} =>
       /\ \A r \in GroupRanks : Size(X[r]) = loc_row_len[r] /\ Size(B[r]) = loc_row_len[r]
       /\ DescriptorOK(desc.X, GroupSize)
       /\ DescriptorOK(desc.B, GroupSize)
       /\ Size(all_X) = SumTo(desc.X.Apart, GroupSize)
       /\ Size(all_X) = GroupRowTotal
       /\ Size(all_B) = SumTo(desc.B.Apart, GroupSize)
       /\ Size(all_B) = GroupRowTotal

\* a group of three ranks with different row counts has gathered X and B
C6_Witness ==
  /\ phase = "gathered"
  /\ GroupSize = 3
  /\ loc_row_len[0] = 2 /\ loc_row_len[1] = 1 /\ loc_row_len[2] = 2
  /\ desc.X.Adisp[1] = 2 /\ desc.X.Adisp[2] = 3
  /\ Size(all_X) = 5

\* C7: when the leader's flat buffer is, at the scatter, what the gather left
\* in it, every rank's X after ScatterArray is its X before GatherArray
C7_RoundTrip ==
  (phase = "solved" /\ all_X = gatheredX) => X = X0

\* three ranks with one, two and one entries got their sub-arrays back
C7_Witness ==
  /\ phase = "solved"
  /\ all_X = gatheredX
  /\ GroupSize = 3
  /\ Size(X[0]) = 1 /\ Size(X[1]) = 2 /\ Size(X[2]) = 1
  /\ X = X0
  /\ X[1] = VecX(2, 1)

\* -------------------------------------------- SpecLife: further properties
\* C11: an initialize call on an initialized instance, or with a modeStr other
\* than "dDDI", ends in mfem_error: the run is aborted, no communicator of the
\* instance has been created or replaced, no engine call has been made and no
\* handle created; on an initialized instance count has not been incremented.
C11_FatalInitialize ==
  [][last'.op = "initialize" =>
       LET i == last'.inst
       IN /\ (isInitialized[i] \/ last'.mode # "dDDI") =>
               /\ aborted'
               /\ comm' = comm
               /\ handles' = handles
               /\ last'.calls = {}
               /\ isInitialized' = isInitialized
          /\ isInitialized[i] => count' = count
    ]_vars

\* an initialized instance has been initialized again and the run has ended
\* with its communicators as they were and the count at one
C11_Witness ==
  /\ aborted
  /\ last.op = "initialize"
  /\ isInitialized[last.inst]
  /\ comm[last.inst].devWorld = "live"
  /\ count = 1

\* C12: after finalize has returned on an instance, its four communicators
\* (globalCpuWorld, localCpuWorld, devWorld, gpuWorld) are released, its
\* gpuProc is MPI_UNDEFINED again and its devID is no device index any more,
\* whether the instance was a leader or not.
C12_TeardownReleasesAll ==
  \A i \in Inst :
     pc[i] = "finalized" =>
        /\ comm[i].globalCpuWorld = "null"
        /\ comm[i].localCpuWorld = "null"
        /\ comm[i].devWorld = "null"
        /\ comm[i].gpuWorld = "null"
        /\ gpuProc[i] = MPI_UNDEFINED
        /\ devID[i] \notin Nat

\* -------------------------------------------- SpecGroup: further properties
\* the entries of the flat buffer a that belong to rank r, by the sizes of
\* the vectors the ranks passed to solve
SliceOf(a, r) ==
  [j \in DOMAIN X0[r] |-> a[SumTo([q \in GroupRanks |-> Size(X0[q])], r) + j]]

\* C13: when the engine's status is not success the solve goes on: the
\* leader downloads the engine's buffer and scatters it, every rank returns
\* with its X equal to its slice of that buffer, and a further solve call can
\* be made.
C13_FailedSolveGoesOn ==
  status = "AMGX_SOLVE_FAILED" =>
     /\ phase \in {"downloaded", "solved", "gathered"}
     /\ phase = "solved" =>
          /\ \A r \in GroupRanks : X[r] = SliceOf(all_X, r)
          /\ ENABLED GSolveGather

\* after a failed solve the three ranks hold the slices of what the engine
\* left in its buffer, which is not what they passed in
C13_Witness ==
  /\ status = "AMGX_SOLVE_FAILED"
  /\ phase = "solved"
  /\ GroupSize = 3
  /\ Size(X[0]) = 2 /\ Size(X[1]) = 1 /\ Size(X[2]) = 2
  /\ all_X = Solution(5)
  /\ X[2] = [j \in 0 .. 1 |-> Solution(5)[3 + j]]
  /\ X # X0

\* ---------------------------------------------------------------------
\* SpecExtract: GetLocalA on one process.  The matrix has row_len local rows;
\* Diag holds the entries in the process's own column range (local column
\* numbers), Offd the others (indices into cmap, which lists their global
\* columns in increasing order); both have their columns sorted in every row
\* (SortColumnIndices).  A value is the name of its entry.
\* ---------------------------------------------------------------------
MaxLocalRows == 2

\* the local columns of Diag, and the column-range starts tried: the first
\* process (nothing below its range) and a process in the middle
DiagCols == {0, 1}
ColStarts == {0, 2}
\* col_map_offd: the global columns 0 .. 4 outside cstart .. cstart + 1
ColMap(cs) == IF cs = 0 THEN [x \in 0 .. 2 |-> 2 + x]
              ELSE [x \in 0 .. 2 |-> IF x < 2 THEN x ELSE 4]

\* the p-th smallest element of a finite set of integers, p from 0
NthOf(S, p) == CHOOSE x \in S : Cardinality({y \in S : y < x}) = p

\* the CSR arrays (GetI, GetJ, GetData) of a block whose row i has the
\* columns rows[i], sorted; tag names the block in the values
CSRBlock(rows, n, tag) ==
  LET Iv == [i \in 0 .. n |-> SumTo([q \in 0 .. (n - 1) |-> Cardinality(rows[q])], i)]
      RowOf(p) == CHOOSE i \in 0 .. (n - 1) : Iv[i] <= p /\ p < Iv[i + 1]
      ColAt(p) == NthOf(rows[RowOf(p)], p - Iv[RowOf(p)])
  IN [I |-> Iv,
      J |-> [p \in 0 .. (Iv[n] - 1) |-> ColAt(p)],
      A |-> [p \in 0 .. (Iv[n] - 1) |-> <<tag, RowOf(p), ColAt(p)>>]]

\* the matrix with n rows, d[i] the columns of row i of Diag and o[i] those of
\* row i of Offd, on the process whose columns start at cs
Matrix(n, d, o, cs) ==
  [row_len |-> n, Diag |-> CSRBlock(d, n, "d"), Offd |-> CSRBlock(o, n, "o"),
   cmap |-> ColMap(cs), cstart |-> cs]

RECURSIVE RowPtrLoop(_, _, _)
\* I[0] = 0; for (i = 0; i < row_len; i++)
\*   I[i+1] = I[i] + (DiagI[i+1] - DiagI[i]) + (OffI[i+1] - OffI[i]);
RowPtrLoop(A, Iv, i) ==
  IF i >= A.row_len THEN Iv
  ELSE RowPtrLoop(A, [Iv EXCEPT ![i + 1] = Iv[i] + (A.Diag.I[i + 1] - A.Diag.I[i])
                                               + (A.Offd.I[i + 1] - A.Offd.I[i])], i + 1)

\* J[k] = cstart + *DiagJ++
GlobalDiagCol_Local(cs, dj) == dj
GlobalDiagCol(cs, dj) == cs + dj

\* the walk of the second loop: k, the positions of the OffJ/OffA and
\* DiagJ/DiagA pointers, jo, and the arrays written so far
RECURSIVE OffLowLoop(_, _, _)
\* for (jo = 0; jo < ncols_o; jo++)
\*   { icol = cmap[*OffJ]; if (icol >= cstart) break;
\*     J[k] = icol; OffJ++; Data[k++] = *OffA++; }
OffLowLoop(A, st, ncols_o) ==
  IF st.jo < ncols_o /\ A.cmap[A.Offd.J[st.off]] < A.cstart
    THEN OffLowLoop(A, [st EXCEPT !.J[st.k] = A.cmap[A.Offd.J[st.off]],
                                  !.Data[st.k] = A.Offd.A[st.off],
                                  !.off = st.off + 1, !.k = st.k + 1, !.jo = st.jo + 1],
                    ncols_o)
    ELSE st

RECURSIVE DiagLoop(_, _, _, _)
\* for (j = 0; j < ncols_d; j++) { J[k] = cstart + *DiagJ++; Data[k++] = *DiagA++; }
DiagLoop(A, st, j, ncols_d) ==
  IF j >= ncols_d THEN st
  ELSE DiagLoop(A, [st EXCEPT !.J[st.k] = GlobalDiagCol(A.cstart, A.Diag.J[st.diag]),
                              !.Data[st.k] = A.Diag.A[st.diag],
                              !.diag = st.diag + 1, !.k = st.k + 1],
                j + 1, ncols_d)

RECURSIVE OffHighLoop(_, _, _, _)
\* for (j = jo; j < ncols_o; j++) { J[k] = cmap[*OffJ++]; Data[k++] = *OffA++; }
OffHighLoop(A, st, j, ncols_o) ==
  IF j >= ncols_o THEN st
  ELSE OffHighLoop(A, [st EXCEPT !.J[st.k] = A.cmap[A.Offd.J[st.off]],
                                 !.Data[st.k] = A.Offd.A[st.off],
                                 !.off = st.off + 1, !.k = st.k + 1],
                   j + 1, ncols_o)

RECURSIVE RowLoop(_, _, _)
\* for (i = 0; i < row_len; i++) { ... the three loops ... }
RowLoop(A, st, i) ==
  IF i >= A.row_len THEN st
  ELSE LET ncols_o == A.Offd.I[i + 1] - A.Offd.I[i]
           ncols_d == A.Diag.I[i + 1] - A.Diag.I[i]
           low  == OffLowLoop(A, [st EXCEPT !.jo = 0], ncols_o)
           mid  == DiagLoop(A, low, 0, ncols_d)
           high == OffHighLoop(A, mid, mid.jo, ncols_o)
       IN RowLoop(A, high, i + 1)

\* GetLocalA(in_A, I, J, Data)
GetLocalA(A) ==
  LET Iv == RowPtrLoop(A, [[i \in 0 .. A.row_len |-> Junk] EXCEPT ![0] = 0], 0)
      st == RowLoop(A, [k |-> 0, off |-> 0, diag |-> 0, jo |-> 0,
                        J |-> Arr(Iv[A.row_len], Junk),
                        Data |-> Arr(Iv[A.row_len], Junk)], 0)
  IN [I |-> Iv, J |-> st.J, Data |-> st.Data]

ExtInit ==
  /\ \E n \in 0 .. MaxLocalRows :
       \E d \in [0 .. (n - 1) -> SUBSET DiagCols], o \in [0 .. (n - 1) -> SUBSET (0 .. 2)],
          cs \in ColStarts :
            in_A = Matrix(n, d, o, cs)
  /\ I = << >> /\ J = << >> /\ Data = << >>
  /\ pc = "call"
  /\ NodeParked /\ LifeParked /\ GrpParked
  /\ devID = << >> /\ gpuProc = << >> /\ gpuWorldSize = << >> /\ myGpuWorldRank = << >>
  /\ devWorldSize = << >> /\ myDevWorldRank = << >>

\* setA, line 453: GetLocalA(A, loc_I, loc_J, loc_A)
XGetLocalA ==
  /\ UNCHANGED extOthers
  /\ pc = "call"
  /\ I' = GetLocalA(in_A).I
  /\ J' = GetLocalA(in_A).J
  /\ Data' = GetLocalA(in_A).Data
  /\ pc' = "returned"
  /\ UNCHANGED in_A

ExtNext == XGetLocalA

SpecExtract == ExtInit /\ [][ExtNext]_vars

\* ----------------------------------------------- SpecExtract: properties
\* the number of entries of row i of Offd whose global column is below cstart
LowCount(A, i) ==
  Cardinality({p \in A.Offd.I[i] .. (A.Offd.I[i + 1] - 1) : A.cmap[A.Offd.J[p]] < A.cstart})

\* C14: I[0] = 0 and I[i+1] - I[i] is the length of row i of Diag plus that
\* of row i of Offd; the entries of row i are the entries of Offd with a global
\* column below cstart, then the entries of Diag with global column cstart +
\* local column, then the other entries of Offd, each in the block's order
\* and with its own value; every entry of the input is in the output once, in
\* its own row.
C14_GetLocalAOrder ==
  pc = "returned" =>
    LET A == in_A
    IN /\ I[0] = 0
       /\ Size(J) = Size(A.Diag.J) + Size(A.Offd.J)
       /\ Size(Data) = Size(J)
       /\ \A p, q \in DOMAIN Data : p # q => Data[p] # Data[q]
       /\ \A i \in 0 .. (A.row_len - 1) :
            LET dlen == A.Diag.I[i + 1] - A.Diag.I[i]
                olen == A.Offd.I[i + 1] - A.Offd.I[i]
                nl   == LowCount(A, i)
            IN /\ I[i + 1] - I[i] = dlen + olen
               /\ \A e \in 0 .. (dlen + olen - 1) :
                    LET k == I[i] + e
                    IN /\ Data[k][2] = i
                       /\ IF e < nl
                            THEN /\ J[k] = A.cmap[A.Offd.J[A.Offd.I[i] + e]]
                                 /\ J[k] < A.cstart
                                 /\ Data[k] = A.Offd.A[A.Offd.I[i] + e]
                          ELSE IF e < nl + dlen
                            THEN /\ J[k] = A.cstart + A.Diag.J[A.Diag.I[i] + (e - nl)]
                                 /\ Data[k] = A.Diag.A[A.Diag.I[i] + (e - nl)]
                          ELSE /\ J[k] = A.cmap[A.Offd.J[A.Offd.I[i] + (e - dlen)]]
                               /\ J[k] > A.cstart
                               /\ Data[k] = A.Offd.A[A.Offd.I[i] + (e - dlen)]

\* two rows of a process whose columns start at 2: global columns 0, 2, 3, 4
\* in the first row and 1, 3 in the second
C14_Witness ==
  /\ pc = "returned"
  /\ in_A.row_len = 2 /\ in_A.cstart = 2
  /\ I = [i \in 0 .. 2 |-> IF i = 0 THEN 0 ELSE IF i = 1 THEN 4 ELSE 6]
  /\ J = [p \in 0 .. 5 |-> IF p = 0 THEN 0 ELSE IF p = 1 THEN 2 ELSE IF p = 2 THEN 3
                           ELSE IF p = 3 THEN 4 ELSE IF p = 4 THEN 1 ELSE 3]
  /\ Data[0] = <<"o", 0, 0>> /\ Data[3] = <<"o", 0, 2>> /\ Data[5] = <<"d", 1, 1>>

\* -------------------------------------------- SpecNode: further properties
\* C15: with a device count of zero initialization ends in the fatal abort
\* and no rank evaluates setDeviceIDs: a rank of a node with nDevs = 0 is
\* before its setDeviceIDs or aborted.
C15_ZeroDevicesFatal ==
  nDevs = 0 => \A r \in NodeRanks : pc[r] \in {"new", "again", "aborted"}

\* -------------------------------------------- SpecGroup: the merge, by case
\* every fragment has a row and its first row is not empty
NonEmptyFirstRows == \A r \in GroupRanks : Size(loc_I[r]) >= 2 /\ loc_I[r][1] > 0

\* rows and non-zeros of the ranks below r
RowsBelow(r) == SumTo([q \in GroupRanks |-> Size(loc_I[q]) - 1], r)
NnzBelow(r) == SumTo([q \in GroupRanks |-> loc_I[q][Size(loc_I[q]) - 1]], r)

\* the first rows + 1 entries of all_I are the merged row pointer: entry j of
\* the fragment of rank r, raised by the non-zeros of the ranks below r, is at
\* index (rows below r) + j
MergedRowPointer ==
  /\ all_I[0] = 0
  /\ \A r \in GroupRanks :
       \A j \in 1 .. (Size(loc_I[r]) - 1) :
          all_I[RowsBelow(r) + j] = loc_I[r][j] + NnzBelow(r)

\* C16: when every fragment has at least one row and a non-empty first row,
\* the merge makes no access outside its arrays, leaves no zero after index 0
\* in the first rows + 1 entries of all_I (the k - 1 seams are resolved), these
\* entries are the merged row pointer, local_rows is the group's row count
\* and local_nnz, read at all_I.Size() - devWorldSize, is the sum of the
\* fragments' non-zeros, the length of all_J and all_A.
C16_MergeNonEmptyFirstRows ==
  (phase = "merged" /\ NonEmptyFirstRows) =>
     /\ ~ub
     /\ local_rows[0] = RowsBelow(GroupSize)
     /\ \A p \in 1 .. local_rows[0] : all_I[p] # 0
     /\ MergedRowPointer
     /\ local_nnz = NnzBelow(GroupSize)
     /\ local_nnz = Size(all_J)
     /\ local_nnz = Size(all_A)

\* the scenario: [0,2,5], [0,3], [0,1,4] merged to [0,2,5,8,9,12]
C16_Witness ==
  /\ phase = "merged"
  /\ GroupSize = 3
  /\ loc_I[0] = [i \in 0 .. 2 |-> IF i = 0 THEN 0 ELSE IF i = 1 THEN 2 ELSE 5]
  /\ loc_I[1] = [i \in 0 .. 1 |-> IF i = 0 THEN 0 ELSE 3]
  /\ loc_I[2] = [i \in 0 .. 2 |-> IF i = 0 THEN 0 ELSE IF i = 1 THEN 1 ELSE 4]
  /\ [p \in 0 .. 5 |-> all_I[p]] =
       [p \in 0 .. 5 |-> IF p = 0 THEN 0 ELSE IF p = 1 THEN 2 ELSE IF p = 2 THEN 5
                         ELSE IF p = 3 THEN 8 ELSE IF p = 4 THEN 9 ELSE 12]
  /\ local_nnz = 12
  /\ local_rows[0] = 5

\* some member of a group of two or more owns no row (its fragment is [0]);
\* the other fragments have a non-empty first row
ZeroRowMember ==
  /\ GroupSize >= 2
  /\ \E r \in GroupRanks : Size(loc_I[r]) = 1
  /\ \A r \in GroupRanks : Size(loc_I[r]) = 1 \/ loc_I[r][1] > 0

\* C17: with a member that owns zero rows, at any rank of the group, the
\* merge ends, without an access to an unwritten entry or outside an array,
\* with the merged row pointer, the group's row count and its non-zero count.
C17_MergeZeroRowMember ==
  (phase \in {"merge", "merged", "crashed"} /\ ZeroRowMember) =>
     /\ phase # "crashed"
     /\ phase = "merged" =>
          /\ ~ub
          /\ local_rows[0] = RowsBelow(GroupSize)
          /\ MergedRowPointer
          /\ local_nnz = NnzBelow(GroupSize)

\* -------------------------------------------- SpecNode: the leader tests
\* initMPIcomms has returned on every rank
NodeReady == \A r \in NodeRanks : pc[r] \in {"ready", "set"}

\* C19: after initMPIcomms, with one device or more, the three tests the code
\* uses for "leader" agree on every rank: gpuProc == 0 (initialize, setA upload,
\* finalize), myDevWorldRank == 0 (the merge of setA) and gpuWorld !=
\* MPI_COMM_NULL (solve; the rank and size in gpuWorld are MPI_UNDEFINED
\* exactly for the null communicator); and every device group has exactly one
\* such rank.
C19_LeaderTestsAgree ==
  (NodeReady /\ nDevs >= 1) =>
     /\ \A r \in NodeRanks :
          /\ (gpuProc[r] = 0) <=> (myDevWorldRank[r] = 0)
          /\ (gpuProc[r] = 0) <=> (myGpuWorldRank[r] # MPI_UNDEFINED)
          /\ (myGpuWorldRank[r] = MPI_UNDEFINED) <=> (gpuWorldSize[r] = MPI_UNDEFINED)
     /\ \A r \in NodeRanks :
          Cardinality({q \in DeviceGroup(devID[r]) : gpuProc[q] = 0}) = 1

\* five processes on two devices: groups of three and two, led by ranks 0 and 3
C19_Witness ==
  /\ NodeReady
  /\ localSize = 5 /\ nDevs = 2
  /\ myDevWorldRank = [r \in 0 .. 4 |-> IF r < 3 THEN r ELSE r - 3]
  /\ myGpuWorldRank = [r \in 0 .. 4 |-> IF r = 0 THEN 0 ELSE IF r = 3 THEN 1 ELSE MPI_UNDEFINED]
  /\ Leaders = {0, 3}

\* -------------------------------------------- SpecLife: the shared engine
\* the engine calls that create, use or destroy the handles of an instance
HandleCalls ==
  {"AMGX_config_create_from_file", "AMGX_config_add_parameters", "AMGX_vector_create",
   "AMGX_matrix_create", "AMGX_solver_create", "AMGX_config_get_default_number_of_rings",
   "AMGX_distribution_create", "AMGX_distribution_set_partition_data",
   "AMGX_matrix_upload_distributed", "AMGX_distribution_destroy", "AMGX_solver_setup",
   "AMGX_vector_bind", "AMGX_vector_upload", "AMGX_solver_solve",
   "AMGX_solver_get_status", "AMGX_vector_download", "AMGX_solver_destroy",
   "AMGX_matrix_destroy", "AMGX_vector_destroy", "AMGX_config_destroy"}

\* C20: whatever the order of initialize and finalize of the instances of a
\* process, leaders or not: a call that creates, uses or destroys the handles
\* of an instance is made with the engine started and rsrc created and not
\* destroyed (an initialize starts the engine before it creates its handles, a
\* finalize destroys its handles before it stops the engine); and the call
\* that finalizes the last live instance leaves the engine down.
C20_EngineUpForHandles ==
  [][/\ (last'.calls \cap HandleCalls # {}) =>
          IF last'.op = "finalize"
            THEN amgx = "up" /\ rsrc = "live"
            ELSE amgx' = "up" /\ rsrc' = "live"
     /\ (last'.op = "finalize" /\ LiveCount = 1 /\ LiveCount' = 0) => amgx' = "down"
    ]_vars

\* ---------------------------------------------------------------------
\* SpecColl: the collective calls of the processes of one node, each running
\* initialize, setA and solve.  pc[r] is the number of collective calls rank
\* r has returned from; a call returns when every member of its communicator
\* is in the same call.  The calls of the solve engine are not followed.
\* ---------------------------------------------------------------------
MaxCollRanks == 3

Call(c, f) == [comm |-> c, call |-> f]

\* initMPIcomms, lines 106-151
InitColls ==
  <<Call("comm", "MPI_Comm_dup"),
    Call("globalCpuWorld", "MPI_Comm_split_type"),
    Call("globalCpuWorld", "MPI_Barrier"),
    Call("globalCpuWorld", "MPI_Comm_split"),
    Call("localCpuWorld", "MPI_Comm_split"),
    Call("globalCpuWorld", "MPI_Barrier")>>

\* GatherArray on devWorld, lines 345-437 and 597-616; the overload for
\* Array<int64_t> ends with a barrier
GatherColls(trailingBarrier) ==
  <<Call("devWorld", "MPI_Allgather"), Call("devWorld", "MPI_Barrier"),
    Call("devWorld", "MPI_Gatherv")>>
  \o (IF trailingBarrier THEN <<Call("devWorld", "MPI_Barrier")>> ELSE << >>)

\* setA, lines 472-593, on a rank with this gpuProc
SetAColls(gp) ==
  <<Call("devWorld", "MPI_Allreduce"), Call("devWorld", "MPI_Allreduce"),
    Call("devWorld", "MPI_Allreduce"), Call("devWorld", "MPI_Barrier")>>
  \o GatherColls(FALSE) \o GatherColls(TRUE) \o GatherColls(FALSE)
  \o <<Call("devWorld", "MPI_Barrier")>>
  \o (IF gp = 0
        THEN <<Call("gpuWorld", "MPI_Allgather"), Call("gpuWorld", "MPI_Barrier"),
               Call("gpuWorld", "MPI_Barrier"), Call("gpuWorld", "MPI_Barrier")>>
        ELSE << >>)

\* solve, lines 637-662, on a rank with this gpuWorld (its rank in it is
\* MPI_UNDEFINED for MPI_COMM_NULL)
SolveColls_ScatterByLeader(gwRank) ==
  GatherColls(FALSE) \o GatherColls(FALSE)
  \o <<Call("devWorld", "MPI_Barrier")>>
  \o (IF gwRank # MPI_UNDEFINED
        THEN <<Call("gpuWorld", "MPI_Barrier"), Call("devWorld", "MPI_Scatterv")>>
        ELSE << >>)

SolveColls(gwRank) ==
  GatherColls(FALSE) \o GatherColls(FALSE)
  \o <<Call("devWorld", "MPI_Barrier")>>
  \o (IF gwRank # MPI_UNDEFINED THEN <<Call("gpuWorld", "MPI_Barrier")>> ELSE << >>)
  \o <<Call("devWorld", "MPI_Scatterv")>>

\* the calls of rank r, as far as its fields decide them: those of setA and
\* solve are decided once initMPIcomms has returned
Program(r) ==
  IF pc[r] < Len(InitColls) THEN InitColls
  ELSE InitColls \o SetAColls(gpuProc[r]) \o SolveColls(myGpuWorldRank[r])

Returned(r) == pc[r] >= Len(Program(r))
NextCall(r) == Program(r)[pc[r] + 1]

\* the processes of the communicator of rank r that call.comm names
Members(c, r) ==
  IF c = "devWorld" THEN SplitMembers(NodeRanks, devID, r)
  ELSE IF c = "gpuWorld" THEN SplitMembers(NodeRanks, gpuProc, r)
  ELSE NodeRanks

\* every member of the communicator of r's next call is in that call
Matched(r) ==
  /\ ~Returned(r)
  /\ \A q \in Members(NextCall(r).comm, r) : ~Returned(q) /\ NextCall(q) = NextCall(r)

CollInit ==
  /\ localSize \in 1 .. MaxCollRanks
  /\ nDevs \in 1 .. (MaxCollRanks + 1)
  /\ pc = [r \in Ranks(localSize) |-> 0]
  /\ devID = [r \in Ranks(localSize) |-> Unset]
  /\ gpuProc = [r \in Ranks(localSize) |-> FreshGpuProc]
  /\ gpuWorldSize = [r \in Ranks(localSize) |-> Unset]
  /\ myGpuWorldRank = [r \in Ranks(localSize) |-> Unset]
  /\ devWorldSize = [r \in Ranks(localSize) |-> Unset]
  /\ myDevWorldRank = [r \in Ranks(localSize) |-> Unset]
  /\ loc_row_len = << >> /\ local_rows = << >> /\ rowPart = << >>
  /\ LifeParked /\ GrpParked /\ ExtParked

collOthers == <<loc_row_len, local_rows, rowPart, lifeVars, grpVars, extVars>>

\* the matched call of rank r returns on every member of its communicator;
\* setDeviceIDs follows MPI_Comm_split_type, and the sizes and ranks are read
\* after each MPI_Comm_split
CCollective(r) ==
  /\ UNCHANGED collOthers
  /\ Matched(r)
  /\ LET c == NextCall(r)
         M == Members(c.comm, r)
     IN /\ pc' = [q \in NodeRanks |-> IF q \in M THEN pc[q] + 1 ELSE pc[q]]
        /\ IF c.call = "MPI_Comm_split_type"
             THEN /\ devID' = [q \in NodeRanks |-> DevIDOf(localSize, nDevs, q)]
                  /\ gpuProc' = [q \in NodeRanks |->
                                   GpuProcOf(localSize, nDevs, q, gpuProc[q])]
                  /\ UNCHANGED <<gpuWorldSize, myGpuWorldRank, devWorldSize,
                                 myDevWorldRank>>
           ELSE IF c = Call("globalCpuWorld", "MPI_Comm_split")
             THEN /\ gpuWorldSize' = [q \in NodeRanks |-> SplitSize(NodeRanks, gpuProc, q)]
                  /\ myGpuWorldRank' = [q \in NodeRanks |-> SplitRank(NodeRanks, gpuProc, q)]
                  /\ UNCHANGED <<devID, gpuProc, devWorldSize, myDevWorldRank>>
           ELSE IF c = Call("localCpuWorld", "MPI_Comm_split")
             THEN /\ devWorldSize' = [q \in NodeRanks |-> SplitSize(NodeRanks, devID, q)]
                  /\ myDevWorldRank' = [q \in NodeRanks |-> SplitRank(NodeRanks, devID, q)]
                  /\ UNCHANGED <<devID, gpuProc, gpuWorldSize, myGpuWorldRank>>
           ELSE UNCHANGED <<devID, gpuProc, gpuWorldSize, myGpuWorldRank,
                            devWorldSize, myDevWorldRank>>
  /\ UNCHANGED <<localSize, nDevs>>

CollNext == \E r \in NodeRanks : CCollective(r)

SpecColl == CollInit /\ [][CollNext]_vars

\* -------------------------------------------------- SpecColl: properties
\* the calls of rank r on the communicator named c
CallsOn(r, c) ==
  LET OnC(e) == e.comm = c IN SelectSeq(Program(r), OnC)

\* C18: as long as some process has not returned from its calls, some call is
\* matched and returns (no process waits for a call that a member of its
\* communicator does not make); and when initMPIcomms has returned, which
\* fixes the calls of setA and solve, the members of every communicator
\* (global, devWorld, gpuWorld) have the same sequence of calls on it, and a
\* process outside gpuWorld has none on it.
C18_NoDeadlock ==
  /\ (\A r \in NodeRanks : Returned(r)) \/ (\E r \in NodeRanks : Matched(r))
  /\ (\A r \in NodeRanks : pc[r] = Len(InitColls)) =>
       \A r \in NodeRanks :
          /\ \A c \in {"comm", "globalCpuWorld", "localCpuWorld", "devWorld", "gpuWorld"} :
               \A q \in Members(c, r) :
                  (c = "gpuWorld" => gpuProc[r] # MPI_UNDEFINED) =>
                     CallsOn(q, c) = CallsOn(r, c)
          /\ gpuProc[r] = MPI_UNDEFINED => CallsOn(r, "gpuWorld") = << >>

\* three processes on two devices (a group of two and a group of one) have
\* all returned from solve
C18_Witness ==
  /\ localSize = 3 /\ nDevs = 2
  /\ \A r \in NodeRanks : Returned(r)
  /\ pc[0] = Len(InitColls) + Len(SetAColls(0)) + Len(SolveColls(0))
  /\ pc[1] = Len(InitColls) + Len(SetAColls(MPI_UNDEFINED)) + Len(SolveColls(MPI_UNDEFINED))

\* ------------------------------------------- SpecNode: reuse of an instance
\* C21: after every initialization with one device or more, the first one of
\* a new instance or one that follows finalize with another device count or
\* communicator, the device id and the leader flag of every rank are what
\* setDeviceIDs gives a freshly constructed instance for these inputs; a rank
\* that is not a leader under the new counts has the flag MPI_UNDEFINED.
C21_ReuseAsFresh ==
  \A r \in NodeRanks :
     (pc[r] \in {"assigned", "ready", "set"} /\ nDevs >= 1) =>
        /\ devID[r] = DevIDOf(localSize, nDevs, r)
        /\ gpuProc[r] = GpuProcOf(localSize, nDevs, r, FreshGpuProc)
        /\ (\E q \in NodeRanks :
              q < r /\ DevIDOf(localSize, nDevs, q) = DevIDOf(localSize, nDevs, r))
             => gpuProc[r] = MPI_UNDEFINED

\* two processes, initialized again on one device: rank 0 is about to run
\* setDeviceIDs, and rank 1, whose rank in the old gpuWorld shows it led a
\* device group of its own in the first life, has run it and is no leader
C21_Witness ==
  /\ localSize = 2 /\ nDevs = 1
  /\ pc[0] = "again" /\ pc[1] = "assigned"
  /\ myGpuWorldRank[1] = 1 /\ devWorldSize[1] = 1
  /\ devID[1] = 0 /\ gpuProc[1] = MPI_UNDEFINED

\* ------------------------------------------ SpecGroup: the merge, indices
\* C22: after every pass of the merge, no access of the pass was outside
\* z_ind (indices 0 .. devWorldSize) or outside all_I (indices 0 ..
\* all_I.Size() - 1), and the entries of z_ind the pass read, z_ind[1] and in
\* a pass of the loop z_ind[2], were written in that pass by the zero scan or
\* the end sentinel.
C22_MergeIndexSafety ==
  (phase \in {"merge", "merged", "crashed"} /\ z_fresh # {}) =>
     /\ ~ub
     /\ 1 \in z_fresh
     /\ (phase = "merge" => 2 \in z_fresh)

====
